---- MODULE Spec2Model ----
(***************************************************************************)
(* Model of src/provably-fair.js: the provably fair number engine.         *)
(*                                                                         *)
(* One call of getUniqueNumbersFromRange (directly, or through             *)
(* getNumberFromRange) is followed statement by statement; the awaited     *)
(* createHmac calls are the suspension points.  Strings are sequences of   *)
(* one-character strings, so that message construction is computed.        *)
(* Bytes and words are kept at a scaled-down width: a byte has ByteBase    *)
(* values, a word is WordBytes bytes read big-endian, a digest block has   *)
(* DigestLen bytes.                                                        *)
(*                                                                         *)
(* Around the engine: createHmac with the globals it probes (crypto.subtle *)
(* and CryptoJS), getHashBySeed, the four game adapters, and               *)
(* updateFunctions of src/app.js, which installs the code app.js embeds.   *)
(* Spec, SpecPair, SpecPrefix, SpecLive, SpecEnv, SpecConc and SpecColon   *)
(* follow the engine byte by byte; SpecCommit follows getHashBySeed;       *)
(* SpecApp follows the page, with the engine call inside an adapter        *)
(* summarised by its outcome.                                              *)
(***************************************************************************)
EXTENDS Integers, Sequences, FiniteSets, TLC

(* ---------------------------- bounds ----------------------------------- *)

\* digest blocks a call may materialize before the model stops following it
MaxBlocks == 3

\* largest totalRange (upper - lower + 1) of the enumerated ranges
MaxRange == 5

\* largest length of the seeds whose commitment is computed
MaxSeedLen == 3

\* largest sectorsCount, gridSize, minesCount and totalRange of the adapter
\* calls
MaxCells == 2

(* ------------------------ program constants ---------------------------- *)

\* bytes read per candidate: readUInt32BE reads offset .. offset + 3
WordBytes == 4

\* rng: [0, 10000] of calculateDiceResult
DiceUpper == 10000

\* rawNumber / 100 of calculateDiceResult
DiceDivisor == 100

\* rng: [1, 100] of the calculateDiceResult embedded in app.js
EmbeddedDiceUpper == 100

\* totalRange = 2000, the default of calculateCasesResult
DefaultTotalRange == 2000

\* bytes of one HMAC digest block: a whole number of words (8 words, 32 bytes,
\* for SHA-256), scaled down to one word
DigestLen == WordBytes

(* ------------------------------ inputs --------------------------------- *)

\* the values of one byte (0 .. 255 in the program, scaled down)
Bytes == {0, 1}

ByteBase == Cardinality(Bytes)

Lowers == {-1}

\* counts: non-positive ones, and up to one more than the largest range
Counts == -1 .. (MaxRange + 1)

\* upper bounds for a lower bound: from an empty range to MaxRange values
Uppers(lower) == (lower - 2) .. (lower + MaxRange - 1)

ServerSeeds == {<<"k">>}

\* <<clientSeed, nonce>> of a round: the default (empty) client seed with
\* nonce 0, and a client seed with a nonce of several digits
Rounds == { << << >>, 0 >>, << <<"a">>, 12 >> }

\* the inputs of the behaviours that compare two calls: one round, and
\* ranges of up to MaxRange - 1 values
PairLowers == {-1}

PairUppers(lower) == (lower - 2) .. (lower + MaxRange - 2)

PairRounds == { << <<"a">>, 12 >> }

\* the inputs of two calls running at once: a range of three values, counts
\* on both sides of its half, and two nonces, one the first digit of the other
ConcCounts == {1, 2}

ConcLowers == {-1}

ConcUppers(lower) == {lower + 2}

ConcRounds == { << <<"a">>, 1 >>, << <<"a">>, 12 >> }

\* the rounds of two calls whose client seeds may hold the separator: a client
\* seed "a", a client seed "a:1" and a client seed "b", all with nonce 1
ColonRounds ==
    { << <<"a">>, 1 >>, << <<"a", ":", "1">>, 1 >>, << <<"b">>, 1 >> }

\* the inputs of the behaviours that compare the direct draws of two counts:
\* a range of MaxRange + 1 values and the counts up to its half
PrefixLowers == {-1}

PrefixUppers(lower) == {lower + MaxRange}

PrefixCounts == 2 .. ((MaxRange + 1) \div 2)

Digests == [1 .. DigestLen -> Bytes]

\* characters of the seeds whose commitment is computed: two letters and a
\* line feed
SeedChars == {"a", "b", "\n"}

Seeds == UNION {[1 .. n -> SeedChars] : n \in 0 .. MaxSeedLen}

(* --------------------------- pure helpers ------------------------------ *)

RECURSIVE Pow(_, _)
Pow(b, e) == IF e = 0 THEN 1 ELSE b * Pow(b, e - 1)

\* BigInt(0xffffffff): the largest value of one word
MAX_UINT32 == Pow(ByteBase, WordBytes) - 1

\* upper bounds of the single-number calls: every range the sampler takes,
\* from an empty one to one of 2^32 - 1 values
WideUppers(lower) == (lower - 2) .. (lower + MAX_UINT32 - 1)

DigitChars == <<"0", "1", "2", "3", "4", "5", "6", "7", "8", "9">>

\* `${n}` for a non-negative integer n: its decimal digits
RECURSIVE NumberToString(_)
NumberToString(n) ==
    IF n < 10 THEN <<DigitChars[n + 1]>>
    ELSE NumberToString(n \div 10) \o <<DigitChars[(n % 10) + 1]>>

\* const baseMsg = `${clientSeed}:${nonce}`
BaseMsg(clientSeed, nonce) == clientSeed \o <<":">> \o NumberToString(nonce)

\* a block message without the separator before the block index
BlockMsgNoSeparator(baseMsg, digestIndex) == baseMsg \o NumberToString(digestIndex)

\* `${baseMsg}:${digestIndex}`
BlockMsg(baseMsg, digestIndex) == baseMsg \o <<":">> \o NumberToString(digestIndex)

\* buffer[offset] of a Uint8Array; a read past the end is undefined, which the
\* shift operators coerce to 0
ByteAt(buffer, offset) ==
    IF (offset + 1) \in DOMAIN buffer THEN buffer[offset + 1] ELSE 0

\* the same four bytes read little-endian
readUInt32LE(buffer, offset) ==
    ByteAt(buffer, offset + 3) * Pow(ByteBase, 3)
      + ByteAt(buffer, offset + 2) * Pow(ByteBase, 2)
      + ByteAt(buffer, offset + 1) * ByteBase
      + ByteAt(buffer, offset)

\* readUInt32BE(buffer, offset)
readUInt32BE(buffer, offset) ==
    ByteAt(buffer, offset) * Pow(ByteBase, 3)
      + ByteAt(buffer, offset + 1) * Pow(ByteBase, 2)
      + ByteAt(buffer, offset + 2) * ByteBase
      + ByteAt(buffer, offset + 3)

\* const totalRange = upper - lower + 1
TotalRange(lower, upper) == upper - lower + 1

\* an inversion that is also taken at exactly half the range
ShouldUseInversionAtHalf(count, tr) == 2 * count >= tr

\* const shouldUseInversion = count > totalRange / 2  (real division)
ShouldUseInversion(count, tr) == 2 * count > tr

\* a targetCount that ignores the inversion
TargetCountDirect(count, tr) == count

\* const targetCount = shouldUseInversion ? totalRange - count : count
TargetCount(count, tr) ==
    IF ShouldUseInversion(count, tr) THEN tr - count ELSE count

\* a limit computed from 2^32 instead of 2^32 - 1
LimitFromWordSize(rangeArg) == (MAX_UINT32 + 1) - ((MAX_UINT32 + 1) % rangeArg)

\* const limit = MAX_UINT32 - (MAX_UINT32 % range)
Limit(rangeArg) == MAX_UINT32 - (MAX_UINT32 % rangeArg)

\* a sampler that rejects nothing
AcceptedAlways(num, lim) == TRUE

\* if (num < limit)
Accepted(num, lim) == num < lim

\* a mapping that forgets the lower bound
MapToRangeNoOffset(num, rangeArg, lower) == num % rangeArg

\* Number((num % range) + BigInt(lower))
MapToRange(num, rangeArg, lower) == (num % rangeArg) + lower

\* results.has(result), results a Set kept in insertion order
Has(set, x) == \E i \in DOMAIN set : set[i] = x

\* a working set that puts a new value before the values it holds
AddUniqueFront(set, x) == IF Has(set, x) THEN set ELSE <<x>> \o set

\* if (!results.has(result)) results.add(result)
AddUnique(set, x) == IF Has(set, x) THEN set ELSE Append(set, x)

\* an inversion loop that stops before upper (i < upper)
RECURSIVE InversionLoopExclusive(_, _, _, _)
InversionLoopExclusive(i, upper, excluded, finalResults) ==
    IF i < upper
    THEN InversionLoopExclusive(i + 1, upper, excluded,
                                IF Has(excluded, i) THEN finalResults
                                ELSE Append(finalResults, i))
    ELSE finalResults

\* for (let i = lower; i <= upper; i += 1) if (!excluded.has(i)) finalResults.push(i)
RECURSIVE InversionLoop(_, _, _, _)
InversionLoop(i, upper, excluded, finalResults) ==
    IF i <= upper
    THEN InversionLoop(i + 1, upper, excluded,
                       IF Has(excluded, i) THEN finalResults
                       ELSE Append(finalResults, i))
    ELSE finalResults

\* an output that lists the drawn values in ascending order
OutputSorted(inv, lower, upper, set) ==
    LET drawn == {set[i] : i \in DOMAIN set}
        kept == IF inv THEN (lower .. upper) \ drawn ELSE drawn
    IN  CHOOSE a \in [1 .. Cardinality(kept) -> kept] :
          \A i, j \in 1 .. Cardinality(kept) : i < j => a[i] < a[j]

\* the value getUniqueNumbersFromRange returns once the loop has ended
Output(inv, lower, upper, set) ==
    IF inv THEN InversionLoop(lower, upper, set, << >>) ELSE set

\* a validation whose first check lets count = 0 through
ValidationErrorZeroCount(count, lower, upper) ==
    IF count < 0 THEN "count must be > 0"
    ELSE IF upper < lower THEN "upper must be >= lower"
    ELSE IF count > upper - lower + 1 THEN "Cannot generate unique numbers"
    ELSE ""

\* the three validation checks, in the order of the code; "" is no error
ValidationError(count, lower, upper) ==
    IF count <= 0 THEN "count must be > 0"
    ELSE IF upper < lower THEN "upper must be >= lower"
    ELSE IF count > TotalRange(lower, upper) THEN "Cannot generate unique numbers"
    ELSE ""

\* the characters `.` does not match in a regular expression without the s
\* flag (U+2028 and U+2029 are the other two)
LineTerminators == {"\n", "\r"}

\* str.match(/.{1,2}/g), the matches found from position i on: a match takes
\* two characters when it can and one otherwise, none of them a line
\* terminator; where no match starts the scan moves on by one character
RECURSIVE Match(_, _)
Match(str, i) ==
    IF i > Len(str) THEN << >>
    ELSE IF str[i] \in LineTerminators THEN Match(str, i + 1)
    ELSE IF i + 1 <= Len(str) /\ str[i + 1] \notin LineTerminators
         THEN <<SubSeq(str, i, i + 1)>> \o Match(str, i + 2)
         ELSE <<SubSeq(str, i, i)>> \o Match(str, i + 1)

\* Array.prototype.reverse
Reverse(array) == [i \in 1 .. Len(array) |-> array[Len(array) + 1 - i]]

\* Array.prototype.join('')
RECURSIVE Join(_)
Join(array) == IF array = << >> THEN << >> ELSE Head(array) \o Join(Tail(array))

\* const salt = seed.match(/.{1,2}/g)?.reverse().join('') ?? seed
\* (match returns null when nothing matches)
Salt(sd) ==
    LET matches == Match(sd, 1)
    IN  IF matches = << >> THEN sd ELSE Join(Reverse(matches))

HexDigits == <<"0", "1", "2", "3", "4", "5", "6", "7", "8", "9",
               "a", "b", "c", "d", "e", "f">>

\* b.toString(16).padStart(2, '0')
ByteToHex(b) == <<HexDigits[(b \div 16) + 1], HexDigits[(b % 16) + 1]>>

\* hashArray.map(b => b.toString(16).padStart(2, '0')).join('')
RECURSIVE BytesToHex(_)
BytesToHex(bytes) ==
    IF bytes = << >> THEN << >>
    ELSE ByteToHex(Head(bytes)) \o BytesToHex(Tail(bytes))

\* WordArray.toString() of crypto-js: the Hex encoder, two lowercase digits
\* for each byte
RECURSIVE WordArrayToString(_)
WordArrayToString(bytes) ==
    IF bytes = << >> THEN << >>
    ELSE <<HexDigits[(Head(bytes) \div 16) + 1], HexDigits[(Head(bytes) % 16) + 1]>>
           \o WordArrayToString(Tail(bytes))

\* parseInt(c, 16) of one hexadecimal digit
HexValue(c) == (CHOOSE i \in DOMAIN HexDigits : HexDigits[i] = c) - 1

\* hexToArrayBuffer(hex): bytes[i / 2] = parseInt(hex.substr(i, 2), 16)
hexToArrayBuffer(hex) ==
    [i \in 1 .. (Len(hex) \div 2) |->
       HexValue(hex[2 * i - 1]) * 16 + HexValue(hex[2 * i])]

\* CryptoJS.HmacSHA256(message, key): the <<key, message>> it computes with
HmacSHA256(message, key) == <<key, message>>

\* the crypto-js branch of getHashBySeed with the arguments in createHmac's
\* order
DirectRequestKeyFirst(code, sd) ==
    IF code = "original" THEN HmacSHA256(sd \o Salt(sd), << >>)
    ELSE HmacSHA256(sd, sd \o Salt(sd))

\* the <<key, message>> of the branch of getHashBySeed taken when CryptoJS is
\* defined: CryptoJS.HmacSHA256('', seed + salt) in provably-fair.js (line
\* 205), CryptoJS.HmacSHA256(seed + salt, seed) in the code app.js embeds
\* (line 653)
DirectRequest(code, sd) ==
    IF code = "original" THEN HmacSHA256(<< >>, sd \o Salt(sd))
    ELSE HmacSHA256(sd \o Salt(sd), sd)

\* the <<key, message>> of the other branch: createHmac(seed + salt, '') in
\* provably-fair.js (line 208), createHmac(seed, seed + salt) in the code
\* app.js embeds (line 656)
AwaitedRequest(code, sd) ==
    IF code = "original" THEN <<sd \o Salt(sd), << >> >>
    ELSE <<sd, sd \o Salt(sd)>>

(* ------------------------------- state --------------------------------- *)

VARIABLES
    pc,            \* position of the call
    entry,         \* "unique": getUniqueNumbersFromRange, "number": getNumberFromRange
    args,          \* the parameters object of the call
    totalRange, shouldUseInversion, targetCount, range, limit, baseMsg,
    digest,        \* the bytes materialized so far
    results,       \* the working Set, in insertion order
    cursor, digestIndex,
    num,           \* the candidate read in the current iteration
    numbers,       \* the array the call returned
    value,         \* the number getNumberFromRange returned
    error,         \* message of the Error thrown, "" when none
    pending,       \* the createHmac request awaited, << >> when none
    hmac,          \* the digests createHmac has returned: [key, message, out]
    requests,      \* createHmac requests of the call, in order
    examined,      \* candidates the call has read, in order
    prev,          \* the previous finished call
    subtle,        \* crypto.subtle: "absent", "throws" (its calls reject), "works"
    CryptoJS,      \* TRUE when typeof CryptoJS !== 'undefined'
    via,           \* how the last HMAC was obtained, "" before the first
    installed,     \* the code window.ProvablyFair holds: "original", "embedded"
    seed,          \* the argument of the last getHashBySeed call
    salt,          \* the salt of the last getHashBySeed call
    hash,          \* the string the last getHashBySeed call returned, << >> when none
    winNumber,     \* the winNumber of the last dice result, in hundredths
    commitments,   \* every <<seed, hash>> getHashBySeed has returned
    parked         \* a call suspended at an await while another one runs

vars == <<pc, entry, args, totalRange, shouldUseInversion, targetCount, range,
          limit, baseMsg, digest, results, cursor, digestIndex, num, numbers,
          value, error, pending, hmac, requests, examined, prev, subtle,
          CryptoJS, via, installed, seed, salt, hash, winNumber, commitments,
          parked>>

locals == <<totalRange, shouldUseInversion, targetCount, range, limit, baseMsg>>

loopState == <<digest, results, cursor, digestIndex, num>>

NoArgs == [count |-> 0, lower |-> 0, upper |-> 0, serverSeed |-> << >>,
           nonce |-> 0, clientSeed |-> << >>]

NoPrev == [made |-> FALSE]

\* the globals createHmac probes, and how it last obtained an HMAC
env == <<subtle, CryptoJS, via>>

\* the state of the page around the engine
app == <<installed, seed, salt, hash, winNumber, commitments>>

NoCall == [pc |-> "none"]

\* the page as provably-fair.js leaves it when it has run (lines 317-326)
AppInit ==
    /\ via = ""
    /\ installed = "original"
    /\ seed = << >> /\ salt = << >> /\ hash = << >>
    /\ winNumber = 0
    /\ commitments = {}
    /\ parked = NoCall

\* no call has been made
CallInit ==
    /\ pc = "idle"
    /\ entry = "unique"
    /\ args = NoArgs
    /\ totalRange = 0 /\ shouldUseInversion = FALSE /\ targetCount = 0
    /\ range = 1 /\ limit = 0 /\ baseMsg = << >>
    /\ digest = << >> /\ results = << >> /\ cursor = 0 /\ digestIndex = 0
    /\ num = 0
    /\ numbers = << >> /\ value = 0 /\ error = ""
    /\ pending = << >>
    /\ hmac = {}
    /\ requests = << >> /\ examined = << >>
    /\ prev = NoPrev

\* a browser whose Web Crypto works; crypto-js is not on the page
Init ==
    /\ CallInit
    /\ AppInit
    /\ subtle = "works"
    /\ CryptoJS = FALSE

(* ------------------------------ actions -------------------------------- *)

\* what a finished call leaves for the caller to compare the next one with
Finished == pc \in {"returned", "thrown"}

Snapshot ==
    [made |-> TRUE, entry |-> entry, args |-> args, numbers |-> numbers,
     value |-> value, error |-> error, cursor |-> cursor,
     requests |-> requests, inversion |-> shouldUseInversion,
     failed |-> (pc = "thrown")]

\* the counts of a second call: the count of the first again, one, the size
\* of the complement of what the first call returned, and every smaller count
\* after a direct draw
SecondCounts ==
    {args.count, 1}
      \cup (IF error = "" THEN {totalRange - args.count} ELSE {})
      \cup (IF error = "" /\ ~shouldUseInversion THEN 1 .. args.count ELSE {})

\* a call is made when none is running; a second call, made to compare it
\* with the first, keeps the seeds, the nonce and the range of the first
CanCall(count, lower, upper, serverSeed, nonce, clientSeed) ==
    \/ pc = "idle"
    \/ /\ Finished
       /\ ~prev.made
       /\ count \in SecondCounts
       /\ serverSeed = args.serverSeed
       /\ clientSeed = args.clientSeed
       /\ nonce = args.nonce
       /\ lower = args.lower
       /\ upper = args.upper

\* where control goes when getUniqueNumbersFromRange settles
Settled(e, kind) ==
    IF e = "number" THEN (IF kind = "returned" THEN "inner_returned" ELSE "inner_thrown")
    ELSE kind

\* an entry that builds the message and asks for the first digest before it
\* validates its input
EnterRequestFirst(e, count, lower, upper, serverSeed, nonce, clientSeed) ==
    LET err == ValidationError(count, lower, upper)
        tr  == TotalRange(lower, upper)
        msg == BaseMsg(clientSeed, nonce)
    IN  /\ CanCall(count, lower, upper, serverSeed, nonce, clientSeed)
        /\ prev' = IF Finished THEN Snapshot ELSE NoPrev
        /\ entry' = e
        /\ args' = [count |-> count, lower |-> lower, upper |-> upper,
                    serverSeed |-> serverSeed, nonce |-> nonce,
                    clientSeed |-> clientSeed]
        /\ numbers' = << >> /\ value' = 0
        /\ examined' = << >>
        /\ requests' = << <<serverSeed, msg>> >>
        /\ UNCHANGED <<loopState, hmac, env, app, parked>>
        /\ IF err # ""
           THEN /\ error' = err
                /\ pc' = Settled(e, "thrown")
                /\ totalRange' = 0 /\ shouldUseInversion' = FALSE
                /\ targetCount' = 0 /\ range' = 1 /\ limit' = 0
                /\ baseMsg' = << >>
                /\ pending' = << >>
           ELSE /\ error' = ""
                /\ totalRange' = tr
                /\ shouldUseInversion' = ShouldUseInversion(count, tr)
                /\ targetCount' = TargetCount(count, tr)
                /\ range' = tr
                /\ limit' = Limit(tr)
                /\ baseMsg' = msg
                /\ pending' = <<serverSeed, msg>>
                /\ pc' = "await_base"

\* getUniqueNumbersFromRange, from its entry to the first await (lines 104-124);
\* digest, results, cursor and digestIndex are only declared after that await
Enter(e, count, lower, upper, serverSeed, nonce, clientSeed) ==
    LET err == ValidationError(count, lower, upper)
        tr  == TotalRange(lower, upper)
        msg == BaseMsg(clientSeed, nonce)
    IN  /\ CanCall(count, lower, upper, serverSeed, nonce, clientSeed)
        /\ prev' = IF Finished THEN Snapshot ELSE NoPrev
        /\ entry' = e
        /\ args' = [count |-> count, lower |-> lower, upper |-> upper,
                    serverSeed |-> serverSeed, nonce |-> nonce,
                    clientSeed |-> clientSeed]
        /\ numbers' = << >> /\ value' = 0
        /\ examined' = << >>
        /\ UNCHANGED <<loopState, hmac, env, app, parked>>
        /\ IF err # ""
           THEN /\ error' = err
                /\ pc' = Settled(e, "thrown")
                /\ totalRange' = 0 /\ shouldUseInversion' = FALSE
                /\ targetCount' = 0 /\ range' = 1 /\ limit' = 0
                /\ baseMsg' = << >>
                /\ pending' = << >>
                /\ requests' = << >>
           ELSE /\ error' = ""
                /\ totalRange' = tr
                /\ shouldUseInversion' = ShouldUseInversion(count, tr)
                /\ targetCount' = TargetCount(count, tr)
                /\ range' = tr
                /\ limit' = Limit(tr)
                /\ baseMsg' = msg
                /\ pending' = <<serverSeed, msg>>
                /\ requests' = << <<serverSeed, msg>> >>
                /\ pc' = "await_base"

\* a caller invokes getUniqueNumbersFromRange({count, rng, serverSeed, nonce, clientSeed})
CallUnique ==
    /\ pc = "idle"
    /\ \E count \in Counts, lower \in Lowers, serverSeed \in ServerSeeds,
          round \in Rounds :
         \E upper \in Uppers(lower) :
           Enter("unique", count, lower, upper, serverSeed, round[2], round[1])

\* a caller invokes getNumberFromRange({rng, serverSeed, nonce, clientSeed}),
\* which calls getUniqueNumbersFromRange with count: 1 (lines 178-185)
CallNumber ==
    /\ pc = "idle"
    /\ \E lower \in Lowers, serverSeed \in ServerSeeds, round \in Rounds :
         \E upper \in WideUppers(lower) :
           Enter("number", 1, lower, upper, serverSeed, round[2], round[1])

\* the same two calls in the behaviours that compare a call with a second
\* one: the second keeps the seeds, the nonce and the range of the first
PairCallUnique ==
    \E count \in Counts, lower \in PairLowers, serverSeed \in ServerSeeds,
       round \in PairRounds :
      \E upper \in PairUppers(lower) :
        Enter("unique", count, lower, upper, serverSeed, round[2], round[1])

PairCallNumber ==
    \E lower \in PairLowers, serverSeed \in ServerSeeds, round \in PairRounds :
      \E upper \in PairUppers(lower) :
        Enter("number", 1, lower, upper, serverSeed, round[2], round[1])

\* the ways one createHmac call can end (lines 14-43): signed by
\* crypto.subtle, computed by a crypto-js already on the page, computed by a
\* crypto-js loaded for the call, or rejected because its script fails to load
HmacPaths == {"subtle", "cryptojs", "loaded", "failed"}

\* crypto.subtle is tried first (lines 16-34); when it is absent or its call
\* throws, crypto-js is used, and loaded first when undefined (lines 37-42)
Obtained(p) ==
    CASE p = "subtle"   -> subtle = "works"
      [] p = "cryptojs" -> subtle # "works" /\ CryptoJS
      [] p = "loaded"   -> subtle # "works" /\ ~CryptoJS
      [] p = "failed"   -> subtle # "works" /\ ~CryptoJS

\* the paths on which createHmac resolves
Resolving == HmacPaths \ {"failed"}

\* createHmac resolves on path p; a loaded crypto-js stays on the page
HmacResolves(p) ==
    /\ Obtained(p)
    /\ via' = p
    /\ CryptoJS' = (CryptoJS \/ p = "loaded")
    /\ UNCHANGED subtle

\* the bytes createHmac resolves with when the HMAC is d: the signature of
\* crypto.subtle (line 30), or hexToArrayBuffer(hash.toString()) of the
\* crypto-js WordArray (lines 41-42)
Delivered(p, d) ==
    IF p = "subtle" THEN d ELSE hexToArrayBuffer(WordArrayToString(d))

\* createHmac rejects: loadCryptoJS rejected (line 53) and nothing caught it
HmacRejects ==
    /\ Obtained("failed")
    /\ via' = "failed"
    /\ UNCHANGED <<subtle, CryptoJS>>

\* the digests createHmac(key, message) can resolve with: HMAC is a function
\* of (key, message), so a pair already answered is answered the same again
CreateHmac(key, message) ==
    IF \E t \in hmac : t.key = key /\ t.message = message
    THEN {t.out : t \in {u \in hmac : u.key = key /\ u.message = message}}
    ELSE Digests

Remember(key, message, d) ==
    hmac \cup {[key |-> key, message |-> message, out |-> d]}

\* the first await resumes with a cursor that outlives the call: it is not
\* set back to 0
ResolveBaseKeepCursor ==
    /\ pc = "await_base"
    /\ \E d \in CreateHmac(pending[1], pending[2]), p \in Resolving :
         /\ HmacResolves(p)
         /\ digest' = Delivered(p, d)
         /\ hmac' = Remember(pending[1], pending[2], d)
    /\ results' = << >>
    /\ digestIndex' = 0
    /\ pending' = << >>
    /\ pc' = "loop"
    /\ UNCHANGED <<entry, args, locals, cursor, num, numbers, value, error,
                   requests, examined, prev>>
    /\ UNCHANGED <<app, parked>>

\* line 124 resumes: digest = bufferToUint8Array(await createHmac(serverSeed, baseMsg)),
\* then lines 126-128
ResolveBase ==
    /\ pc = "await_base"
    /\ \E d \in CreateHmac(pending[1], pending[2]), p \in Resolving :
         /\ HmacResolves(p)
         /\ digest' = Delivered(p, d)
         /\ hmac' = Remember(pending[1], pending[2], d)
    /\ results' = << >>
    /\ cursor' = 0
    /\ digestIndex' = 0
    /\ pending' = << >>
    /\ pc' = "loop"
    /\ UNCHANGED <<entry, args, locals, num, numbers, value, error, requests,
                   examined, prev>>
    /\ UNCHANGED <<app, parked>>

\* a loop that asks for the next block as soon as the last buffered word is
\* the next to be read
LoopExtendEager ==
    /\ pc = "loop"
    /\ Len(results) < targetCount
    /\ cursor + WordBytes >= Len(digest)
    /\ digestIndex + 1 < MaxBlocks
    /\ digestIndex' = digestIndex + 1
    /\ pending' = <<args.serverSeed, BlockMsg(baseMsg, digestIndex + 1)>>
    /\ requests' = Append(requests, <<args.serverSeed, BlockMsg(baseMsg, digestIndex + 1)>>)
    /\ pc' = "await_ext"
    /\ UNCHANGED <<entry, args, locals, digest, results, cursor, num, numbers,
                   value, error, hmac, examined, prev>>
    /\ UNCHANGED <<env, app, parked>>

\* lines 130-135: the loop goes on and the buffered bytes are exhausted
LoopExtend ==
    /\ pc = "loop"
    /\ Len(results) < targetCount
    /\ cursor + WordBytes > Len(digest)
    /\ digestIndex + 1 < MaxBlocks
    /\ digestIndex' = digestIndex + 1
    /\ pending' = <<args.serverSeed, BlockMsg(baseMsg, digestIndex + 1)>>
    /\ requests' = Append(requests, <<args.serverSeed, BlockMsg(baseMsg, digestIndex + 1)>>)
    /\ pc' = "await_ext"
    /\ UNCHANGED <<entry, args, locals, digest, results, cursor, num, numbers,
                   value, error, hmac, examined, prev>>
    /\ UNCHANGED <<env, app, parked>>

\* lines 133-140 resume: the new digest is appended to the buffer
ResolveExt ==
    /\ pc = "await_ext"
    /\ \E d \in CreateHmac(pending[1], pending[2]), p \in Resolving :
         /\ HmacResolves(p)
         /\ digest' = digest \o Delivered(p, d)
         /\ hmac' = Remember(pending[1], pending[2], d)
    /\ pending' = << >>
    /\ pc' = "read"
    /\ UNCHANGED <<entry, args, locals, results, cursor, digestIndex, num,
                   numbers, value, error, requests, examined, prev>>
    /\ UNCHANGED <<app, parked>>

\* a loop that goes on to read without looking at the length of the buffer
LoopContinueUnchecked ==
    /\ pc = "loop"
    /\ Len(results) < targetCount
    /\ cursor < MaxBlocks * DigestLen
    /\ pc' = "read"
    /\ UNCHANGED <<entry, args, locals, loopState, numbers, value, error,
                   pending, hmac, requests, examined, prev>>
    /\ UNCHANGED <<env, app, parked>>

\* lines 130-131: the loop goes on and the buffer holds the next word
LoopContinue ==
    /\ pc = "loop"
    /\ Len(results) < targetCount
    /\ ~(cursor + WordBytes > Len(digest))
    /\ pc' = "read"
    /\ UNCHANGED <<entry, args, locals, loopState, numbers, value, error,
                   pending, hmac, requests, examined, prev>>
    /\ UNCHANGED <<env, app, parked>>

\* lines 143-151: read a candidate, advance the cursor, accept or reject
Draw ==
    /\ pc = "read"
    /\ LET n == readUInt32BE(digest, cursor)
       IN  /\ num' = n
           /\ cursor' = cursor + WordBytes
           /\ results' = IF Accepted(n, limit)
                         THEN AddUnique(results, MapToRange(n, range, args.lower))
                         ELSE results
           /\ examined' = Append(examined,
                                 [num |-> n, at |-> cursor,
                                  accepted |-> Accepted(n, limit)])
    /\ pc' = "loop"
    /\ UNCHANGED <<entry, args, locals, digest, digestIndex, numbers, value,
                   error, pending, hmac, requests, prev>>
    /\ UNCHANGED <<env, app, parked>>

\* lines 130, 154-166: the loop ends and the function returns
Return ==
    /\ pc = "loop"
    /\ ~(Len(results) < targetCount)
    /\ numbers' = Output(shouldUseInversion, args.lower, args.upper, results)
    /\ pc' = Settled(entry, "returned")
    /\ UNCHANGED <<entry, args, locals, loopState, value, error, pending,
                   hmac, requests, examined, prev>>
    /\ UNCHANGED <<env, app, parked>>

\* getNumberFromRange with the emptiness check off by one (length <= 1)
NumberReturnOffByOne ==
    /\ pc = "inner_returned"
    /\ IF Len(numbers) <= 1
       THEN /\ error' = "Failed to generate any numbers"
            /\ pc' = "thrown"
            /\ UNCHANGED value
       ELSE /\ value' = numbers[1]
            /\ pc' = "returned"
            /\ UNCHANGED error
    /\ UNCHANGED <<entry, args, locals, loopState, numbers, pending, hmac,
                   requests, examined, prev>>
    /\ UNCHANGED <<env, app, parked>>

\* getNumberFromRange after its await (lines 187-191)
NumberReturn ==
    /\ pc = "inner_returned"
    /\ IF Len(numbers) = 0
       THEN /\ error' = "Failed to generate any numbers"
            /\ pc' = "thrown"
            /\ UNCHANGED value
       ELSE /\ value' = numbers[1]
            /\ pc' = "returned"
            /\ UNCHANGED error
    /\ UNCHANGED <<entry, args, locals, loopState, numbers, pending, hmac,
                   requests, examined, prev>>
    /\ UNCHANGED <<env, app, parked>>

\* getNumberFromRange when the awaited call rejects (line 179): the error
\* propagates unchanged
NumberThrow ==
    /\ pc = "inner_thrown"
    /\ pc' = "thrown"
    /\ UNCHANGED <<entry, args, locals, loopState, numbers, value, error,
                   pending, hmac, requests, examined, prev>>
    /\ UNCHANGED <<env, app, parked>>

\* an engine that goes on with a block of zero bytes when createHmac rejects
HmacFailsDegraded ==
    /\ pc \in {"await_base", "await_ext"}
    /\ HmacRejects
    /\ IF pc = "await_base"
       THEN /\ digest' = [i \in 1 .. DigestLen |-> 0]
            /\ results' = << >> /\ cursor' = 0 /\ digestIndex' = 0
            /\ pc' = "loop"
       ELSE /\ digest' = digest \o [i \in 1 .. DigestLen |-> 0]
            /\ pc' = "read"
            /\ UNCHANGED <<results, cursor, digestIndex>>
    /\ pending' = << >>
    /\ UNCHANGED <<entry, args, locals, num, numbers, value, error, hmac,
                   requests, examined, prev, app, parked>>

\* an awaited createHmac of the engine rejects (lines 124, 133): nothing
\* catches it, so the call rejects with it
HmacFails ==
    /\ pc \in {"await_base", "await_ext"}
    /\ HmacRejects
    /\ error' = "crypto-js failed to load"
    /\ pending' = << >>
    /\ pc' = Settled(entry, "thrown")
    /\ UNCHANGED <<entry, args, locals, loopState, numbers, value, hmac,
                   requests, examined, prev, app, parked>>

(* ------------------------- the commitment ------------------------------ *)

\* the <<key, message>> getHashBySeed computes with
CommitRequest(code, sd) ==
    IF CryptoJS THEN DirectRequest(code, sd) ELSE AwaitedRequest(code, sd)

\* getHashBySeed(sd), from its entry to its return or its await (lines
\* 199-208): with CryptoJS defined the digest is computed at once and its hex
\* string returned, otherwise createHmac is awaited; before holds the HMAC
\* requests the caller has made so far
HashEnter(sd, before) ==
    /\ seed' = sd
    /\ salt' = Salt(sd)
    /\ requests' = Append(before, CommitRequest(installed, sd))
    /\ IF CryptoJS
       THEN LET request == DirectRequest(installed, sd)
            IN  /\ \E d \in CreateHmac(request[1], request[2]) :
                     /\ hash' = WordArrayToString(d)
                     /\ hmac' = Remember(request[1], request[2], d)
                     /\ commitments' = commitments \cup {<<sd, WordArrayToString(d)>>}
                /\ via' = "direct"
                /\ pending' = << >>
                /\ pc' = "returned"
       ELSE /\ pending' = AwaitedRequest(installed, sd)
            /\ hash' = << >>
            /\ pc' = "await_hash"
            /\ UNCHANGED <<hmac, commitments, via>>
    /\ UNCHANGED <<subtle, CryptoJS>>

\* a caller invokes window.ProvablyFair.getHashBySeed(seed) on a fresh page
CommitCall ==
    /\ pc = "idle"
    /\ \E sd \in Seeds : HashEnter(sd, << >>)
    /\ entry' = "hash"
    /\ UNCHANGED <<args, locals, loopState, numbers, value, error, examined,
                   prev, installed, winNumber, parked>>

\* getHashBySeed resumes (lines 208-210): the digest bytes are written in hex
HashResolve ==
    /\ pc = "await_hash"
    /\ \E d \in CreateHmac(pending[1], pending[2]), p \in Resolving :
         /\ HmacResolves(p)
         /\ hash' = BytesToHex(Delivered(p, d))
         /\ hmac' = Remember(pending[1], pending[2], d)
         /\ commitments' = commitments \cup {<<seed, BytesToHex(Delivered(p, d))>>}
    /\ pending' = << >>
    /\ pc' = "returned"
    /\ UNCHANGED <<entry, args, locals, loopState, numbers, value, error,
                   requests, examined, prev, installed, seed, salt, winNumber,
                   parked>>

\* the createHmac getHashBySeed awaits rejects: getHashBySeed rejects with it,
\* and so does an adapter awaiting it
HashReject ==
    /\ pc = "await_hash"
    /\ HmacRejects
    /\ error' = "crypto-js failed to load"
    /\ pending' = << >>
    /\ pc' = "thrown"
    /\ UNCHANGED <<entry, args, locals, loopState, numbers, value, hmac,
                   requests, examined, prev, app, parked>>

Next ==
    \/ CallUnique
    \/ CallNumber
    \/ ResolveBase
    \/ LoopExtend
    \/ ResolveExt
    \/ LoopContinue
    \/ Draw
    \/ Return
    \/ NumberReturn
    \/ NumberThrow

Spec == Init /\ [][Next]_vars

NextPair ==
    \/ PairCallUnique
    \/ PairCallNumber
    \/ ResolveBase
    \/ LoopExtend
    \/ ResolveExt
    \/ LoopContinue
    \/ Draw
    \/ Return
    \/ NumberReturn
    \/ NumberThrow

SpecPair == Init /\ [][NextPair]_vars

\* a direct draw, and after it a draw of fewer values with the same seeds,
\* nonce and range
PrefixCallUnique ==
    \E count \in 1 .. ((MaxRange + 1) \div 2), lower \in PrefixLowers,
       serverSeed \in ServerSeeds, round \in PairRounds :
      \E upper \in PrefixUppers(lower) :
        /\ IF pc = "idle" THEN count \in PrefixCounts ELSE count < args.count
        /\ Enter("unique", count, lower, upper, serverSeed, round[2], round[1])

NextPrefix ==
    \/ PrefixCallUnique
    \/ ResolveBase
    \/ LoopExtend
    \/ ResolveExt
    \/ LoopContinue
    \/ Draw
    \/ Return

SpecPrefix == Init /\ [][NextPrefix]_vars

(* -------------------------- two calls at once -------------------------- *)

\* a call is suspended at an await of createHmac (lines 124, 133)
Awaiting(p) == p \in {"await_base", "await_ext"}

\* the caller is handed the promise of a call suspended at its await and is
\* free to make another call; the locals of the suspended call stay in its
\* own activation
Park ==
    /\ Awaiting(pc)
    /\ parked = NoCall
    /\ parked' = [pc |-> pc, entry |-> entry, args |-> args,
                  totalRange |-> totalRange,
                  shouldUseInversion |-> shouldUseInversion,
                  targetCount |-> targetCount, range |-> range,
                  limit |-> limit, baseMsg |-> baseMsg, digest |-> digest,
                  results |-> results, cursor |-> cursor,
                  digestIndex |-> digestIndex, num |-> num,
                  numbers |-> numbers, value |-> value, error |-> error,
                  pending |-> pending, requests |-> requests,
                  examined |-> examined]
    /\ pc' = "idle"
    /\ entry' = "unique"
    /\ args' = NoArgs
    /\ totalRange' = 0 /\ shouldUseInversion' = FALSE /\ targetCount' = 0
    /\ range' = 1 /\ limit' = 0 /\ baseMsg' = << >>
    /\ digest' = << >> /\ results' = << >> /\ cursor' = 0 /\ digestIndex' = 0
    /\ num' = 0
    /\ numbers' = << >> /\ value' = 0 /\ error' = ""
    /\ pending' = << >>
    /\ requests' = << >> /\ examined' = << >>
    /\ UNCHANGED <<hmac, prev, env, app>>

\* a switch that leaves the cursor where the other call put it, as if it were
\* shared by the calls
SwitchSharedCursor ==
    /\ parked # NoCall
    /\ Awaiting(parked.pc)
    /\ Awaiting(pc) \/ Finished
    /\ parked' = [pc |-> pc, entry |-> entry, args |-> args,
                  totalRange |-> totalRange,
                  shouldUseInversion |-> shouldUseInversion,
                  targetCount |-> targetCount, range |-> range,
                  limit |-> limit, baseMsg |-> baseMsg, digest |-> digest,
                  results |-> results, cursor |-> cursor,
                  digestIndex |-> digestIndex, num |-> num,
                  numbers |-> numbers, value |-> value, error |-> error,
                  pending |-> pending, requests |-> requests,
                  examined |-> examined]
    /\ pc' = parked.pc
    /\ entry' = parked.entry
    /\ args' = parked.args
    /\ totalRange' = parked.totalRange
    /\ shouldUseInversion' = parked.shouldUseInversion
    /\ targetCount' = parked.targetCount
    /\ range' = parked.range
    /\ limit' = parked.limit
    /\ baseMsg' = parked.baseMsg
    /\ digest' = parked.digest
    /\ results' = parked.results
    /\ digestIndex' = parked.digestIndex
    /\ num' = parked.num
    /\ numbers' = parked.numbers
    /\ value' = parked.value
    /\ error' = parked.error
    /\ pending' = parked.pending
    /\ requests' = parked.requests
    /\ examined' = parked.examined
    /\ UNCHANGED <<cursor, hmac, prev, env, app>>

\* the running call is suspended at an await, or has settled, and the
\* createHmac of the other call is the next to resolve: the other call
\* resumes with its own locals (const and let of lines 110-128)
Switch ==
    /\ parked # NoCall
    /\ Awaiting(parked.pc)
    /\ Awaiting(pc) \/ Finished
    /\ parked' = [pc |-> pc, entry |-> entry, args |-> args,
                  totalRange |-> totalRange,
                  shouldUseInversion |-> shouldUseInversion,
                  targetCount |-> targetCount, range |-> range,
                  limit |-> limit, baseMsg |-> baseMsg, digest |-> digest,
                  results |-> results, cursor |-> cursor,
                  digestIndex |-> digestIndex, num |-> num,
                  numbers |-> numbers, value |-> value, error |-> error,
                  pending |-> pending, requests |-> requests,
                  examined |-> examined]
    /\ pc' = parked.pc
    /\ entry' = parked.entry
    /\ args' = parked.args
    /\ totalRange' = parked.totalRange
    /\ shouldUseInversion' = parked.shouldUseInversion
    /\ targetCount' = parked.targetCount
    /\ range' = parked.range
    /\ limit' = parked.limit
    /\ baseMsg' = parked.baseMsg
    /\ digest' = parked.digest
    /\ results' = parked.results
    /\ cursor' = parked.cursor
    /\ digestIndex' = parked.digestIndex
    /\ num' = parked.num
    /\ numbers' = parked.numbers
    /\ value' = parked.value
    /\ error' = parked.error
    /\ pending' = parked.pending
    /\ requests' = parked.requests
    /\ examined' = parked.examined
    /\ UNCHANGED <<hmac, prev, env, app>>

\* a caller invokes getUniqueNumbersFromRange, a second time while the first
\* call is suspended
ConcCallUnique ==
    /\ pc = "idle"
    /\ \E count \in ConcCounts, lower \in ConcLowers, serverSeed \in ServerSeeds,
          round \in ConcRounds :
         \E upper \in ConcUppers(lower) :
           Enter("unique", count, lower, upper, serverSeed, round[2], round[1])

(* ------------------------- the game adapters --------------------------- *)

\* no call of window.ProvablyFair is running
Quiet == pc \in {"idle", "returned", "thrown"}

\* the members of a range the model follows: all of a small range, and the
\* two lowest, the two highest and the middle one of a large range
Kept(lower, upper) ==
    {n \in lower .. upper :
       \/ n - lower <= 1
       \/ upper - n <= 1
       \/ n = (lower + upper) \div 2}

\* the arrays getUniqueNumbersFromRange can return for valid inputs: count
\* distinct members of the range, in the order they were accepted, or in
\* ascending order when the complement was drawn (lines 154-166)
EngineArrays(count, lower, upper) ==
    {a \in [1 .. count -> Kept(lower, upper)] :
       /\ \A i, j \in 1 .. count : i # j => a[i] # a[j]
       /\ ShouldUseInversion(count, TotalRange(lower, upper))
            => \A i, j \in 1 .. count : i < j => a[i] < a[j]}

\* an adapter calls the engine (lines 226, 252, 277, 302): the engine runs to
\* its first await, or throws the error of its validation, which the adapter
\* does not catch
GameEnter(e, count, lower, upper, serverSeed, nonce, clientSeed) ==
    LET err == ValidationError(count, lower, upper)
        msg == BaseMsg(clientSeed, nonce)
    IN  /\ Quiet
        /\ entry' = e
        /\ args' = [count |-> count, lower |-> lower, upper |-> upper,
                    serverSeed |-> serverSeed, nonce |-> nonce,
                    clientSeed |-> clientSeed]
        /\ numbers' = << >> /\ value' = 0
        /\ winNumber' = 0
        /\ hash' = << >>
        /\ IF err # ""
           THEN /\ error' = err
                /\ pending' = << >>
                /\ requests' = << >>
                /\ pc' = "thrown"
           ELSE /\ error' = ""
                /\ pending' = <<serverSeed, msg>>
                /\ requests' = << <<serverSeed, msg>> >>
                /\ pc' = "await_engine"
        /\ UNCHANGED <<locals, loopState, hmac, examined, prev, env, installed,
                       seed, salt, commitments, parked>>

\* the range of the dice: [0, 10000] in provably-fair.js (line 227), [1, 100]
\* in the code app.js embeds (line 711)
DiceRange(code) ==
    IF code = "original" THEN <<0, DiceUpper>> ELSE <<1, EmbeddedDiceUpper>>

\* window.ProvablyFair.calculateDiceResult(clientSeed, serverSeed, nonce)
CallDice ==
    \E serverSeed \in ServerSeeds, round \in PairRounds :
      GameEnter("dice", 1, DiceRange(installed)[1], DiceRange(installed)[2],
                serverSeed, round[2], round[1])

\* window.ProvablyFair.calculateWheelResult(sessionId, serverSeed, sectorsCount):
\* the session id is the client seed and the nonce is 0
CallWheel ==
    \E serverSeed \in ServerSeeds, round \in PairRounds,
       sectorsCount \in 0 .. MaxCells :
      GameEnter("wheel", 1, 1, sectorsCount, serverSeed, 0, round[1])

\* window.ProvablyFair.calculateMinesResult(clientSeed, serverSeed, nonce,
\* gridSize, minesCount)
CallMines ==
    \E serverSeed \in ServerSeeds, round \in PairRounds,
       gridSize \in 0 .. MaxCells, minesCount \in 0 .. (MaxCells + 1) :
      GameEnter("mines", minesCount, 1, gridSize, serverSeed, round[2], round[1])

\* window.ProvablyFair.calculateCasesResult(clientSeed, serverSeed, nonce,
\* totalRange), totalRange 2000 when not given
CallCases ==
    \E serverSeed \in ServerSeeds, round \in PairRounds,
       tr \in (-1 .. MaxCells) \cup {DefaultTotalRange} :
      GameEnter("cases", 1, 0, tr, serverSeed, round[2], round[1])

\* the engine call an adapter awaits returns: createHmac resolved each time it
\* was awaited, and the loop ended
EngineResolves ==
    /\ pc = "await_engine"
    /\ \E p \in Resolving : HmacResolves(p)
    /\ \E a \in EngineArrays(args.count, args.lower, args.upper) :
         /\ numbers' = a
         /\ value' = IF entry = "mines" THEN 0 ELSE a[1]
    /\ pending' = << >>
    /\ pc' = "numbers_ready"
    /\ UNCHANGED <<entry, args, locals, loopState, error, hmac, requests,
                   examined, prev, app, parked>>

\* a createHmac of the engine call rejects: the engine call rejects with it
\* and so does the adapter, which catches nothing
EngineRejects ==
    /\ pc = "await_engine"
    /\ HmacRejects
    /\ error' = "crypto-js failed to load"
    /\ pending' = << >>
    /\ pc' = "thrown"
    /\ UNCHANGED <<entry, args, locals, loopState, numbers, value, hmac,
                   requests, examined, prev, app, parked>>

\* a quotient rounded to the nearest integer
Rounded(n, d) == (2 * n + d) \div (2 * d)

\* the winNumber of the dice, in hundredths: parseFloat((rawNumber /
\* 100).toFixed(2)) in provably-fair.js (lines 234, 239), the number drawn in
\* the code app.js embeds (lines 710, 720)
DiceWinNumber(code, rawNumber) ==
    IF code = "original" THEN Rounded(rawNumber * 100, DiceDivisor)
    ELSE rawNumber * 100

\* an adapter that commits to the client seed
GameResumeClientSeed ==
    /\ pc = "numbers_ready"
    /\ winNumber' = IF entry = "dice" THEN DiceWinNumber(installed, value) ELSE 0
    /\ HashEnter(args.clientSeed, requests)
    /\ UNCHANGED <<entry, args, locals, loopState, numbers, value, error,
                   examined, prev, installed, parked>>

\* the adapter resumes with the numbers and calls getHashBySeed(serverSeed)
\* (lines 234-236, 259, 285, 309)
GameResume ==
    /\ pc = "numbers_ready"
    /\ winNumber' = IF entry = "dice" THEN DiceWinNumber(installed, value) ELSE 0
    /\ HashEnter(args.serverSeed, requests)
    /\ UNCHANGED <<entry, args, locals, loopState, numbers, value, error,
                   examined, prev, installed, parked>>

\* a caller invokes window.ProvablyFair.getHashBySeed(seed) between two calls
AppCallHash ==
    /\ Quiet
    /\ \E sd \in ServerSeeds : HashEnter(sd, << >>)
    /\ entry' = "hash"
    /\ args' = NoArgs
    /\ numbers' = << >> /\ value' = 0 /\ error' = ""
    /\ winNumber' = 0
    /\ UNCHANGED <<locals, loopState, examined, prev, installed, parked>>

\* updateFunctions() of app.js (lines 1043-1089) with the editors holding the
\* code loadOriginalCode put there: the script it appends declares the
\* embedded functions and assigns them to window.ProvablyFair
UpdateFunctions ==
    /\ Quiet
    /\ installed' = "embedded"
    /\ UNCHANGED <<pc, entry, args, locals, loopState, numbers, value, error,
                   pending, hmac, requests, examined, prev, env, seed, salt,
                   hash, winNumber, commitments, parked>>

\* any browser: crypto.subtle absent, rejecting or working, crypto-js on the
\* page or not
InitEnv ==
    /\ CallInit
    /\ AppInit
    /\ subtle \in {"absent", "throws", "works"}
    /\ CryptoJS \in BOOLEAN

\* the steps of a call once it is made: a promise that settles runs its
\* continuation, and a continuation runs to the next await
Progress ==
    \/ ResolveBase
    \/ LoopExtend
    \/ ResolveExt
    \/ LoopContinue
    \/ Draw
    \/ Return
    \/ NumberReturn
    \/ NumberThrow

\* the engine with its steps taken as long as one is possible
SpecLive == Init /\ [][Next]_vars /\ WF_vars(Progress)

\* the engine calls in any browser
EnvCallUnique == pc = "idle" /\ PairCallUnique

EnvCallNumber == pc = "idle" /\ PairCallNumber

NextEnv ==
    \/ EnvCallUnique
    \/ EnvCallNumber
    \/ ResolveBase
    \/ LoopExtend
    \/ ResolveExt
    \/ LoopContinue
    \/ Draw
    \/ Return
    \/ NumberReturn
    \/ NumberThrow
    \/ HmacFails

SpecEnv == InitEnv /\ [][NextEnv]_vars

\* two getUniqueNumbersFromRange calls, the second made while the first is
\* suspended, resumed in any order
NextConc ==
    \/ ConcCallUnique
    \/ Park
    \/ Switch
    \/ ResolveBase
    \/ LoopExtend
    \/ ResolveExt
    \/ LoopContinue
    \/ Draw
    \/ Return

SpecConc == Init /\ [][NextConc]_vars

\* a caller invokes getUniqueNumbersFromRange with a client seed of its
\* choice, a second time while the first call is suspended
ColonCallUnique ==
    /\ pc = "idle"
    /\ \E count \in ConcCounts, lower \in ConcLowers, serverSeed \in ServerSeeds,
          round \in ColonRounds :
         \E upper \in ConcUppers(lower) :
           Enter("unique", count, lower, upper, serverSeed, round[2], round[1])

\* two rounds under one server seed, with client seeds chosen by the players
NextColon ==
    \/ ColonCallUnique
    \/ Park
    \/ Switch
    \/ ResolveBase
    \/ LoopExtend
    \/ ResolveExt
    \/ LoopContinue
    \/ Draw
    \/ Return

SpecColon == Init /\ [][NextColon]_vars

\* one getHashBySeed call in any browser
NextCommit ==
    \/ CommitCall
    \/ HashResolve
    \/ HashReject

SpecCommit == InitEnv /\ [][NextCommit]_vars

\* a fresh page, with or without Web Crypto
InitApp ==
    /\ CallInit
    /\ AppInit
    /\ subtle \in {"absent", "works"}
    /\ CryptoJS = FALSE

\* the page: adapter calls, getHashBySeed calls and updateFunctions
NextApp ==
    \/ CallDice
    \/ CallWheel
    \/ CallMines
    \/ CallCases
    \/ EngineResolves
    \/ EngineRejects
    \/ GameResume
    \/ AppCallHash
    \/ HashResolve
    \/ HashReject
    \/ UpdateFunctions

SpecApp == InitApp /\ [][NextApp]_vars

(* ------------------------------ properties ----------------------------- *)

\* the elements of a sequence
Elems(seq) == {seq[i] : i \in DOMAIN seq}

Distinct(seq) == \A i, j \in DOMAIN seq : i # j => seq[i] # seq[j]

\* getUniqueNumbersFromRange has returned (to its caller or to getNumberFromRange)
UniqueReturned == pc \in {"inner_returned", "returned"} /\ error = ""

\* getUniqueNumbersFromRange has passed validation and is past its first await
Sampling == pc \in {"loop", "read", "await_ext"} \/ UniqueReturned

ValidInput(a) ==
    a.count >= 1 /\ a.lower <= a.upper /\ a.count <= a.upper - a.lower + 1

\* the number of bytes of a word in the stream, and of word values
WordSize == MAX_UINT32 + 1

\* C1: every call of getUniqueNumbersFromRange that returns gives exactly
\* count elements, pairwise distinct, each an integer of [lower, upper], on
\* the direct path and on the inversion path.
C1_ResultSet ==
    UniqueReturned =>
        /\ Len(numbers) = args.count
        /\ Distinct(numbers)
        /\ \A i \in DOMAIN numbers :
             numbers[i] \in Int /\ args.lower <= numbers[i] /\ numbers[i] <= args.upper

\* a call on the inversion path that excluded two values after a draw that
\* added nothing (a rejected or a duplicate candidate) has returned
C1_Witness ==
    /\ pc = "returned"
    /\ entry = "unique"
    /\ shouldUseInversion
    /\ Len(results) = 2
    /\ Len(examined) = 3

\* C3, as claimed: the threshold a candidate is compared against is
\* floor(2^32 / range) * range, for every range.
C3_ThresholdFromWordSize ==
    Sampling => limit = (WordSize \div range) * range

\* C3, amended: the threshold is floor((2^32 - 1) / range) * range, the largest
\* multiple of range not exceeding 2^32 - 1: floor(2^32 / range) * range when
\* range does not divide 2^32, and range less than that when it does; a
\* candidate is accepted exactly when it is below the threshold.
C3_Threshold ==
    Sampling =>
        /\ limit = (MAX_UINT32 \div range) * range
        /\ (WordSize % range # 0) => limit = (WordSize \div range) * range
        /\ (WordSize % range = 0) => limit = WordSize - range
        /\ \A i \in DOMAIN examined :
             examined[i].accepted <=> examined[i].num < limit

\* a range that divides the word size, with a candidate at the threshold
\* rejected and a candidate just below it accepted
C3_Witness ==
    /\ Sampling
    /\ range = 4
    /\ \E i, j \in DOMAIN examined :
         /\ examined[i].num = WordSize - 4 /\ ~examined[i].accepted
         /\ examined[j].num = WordSize - 5 /\ examined[j].accepted

\* the word values the sampler accepts and maps to residue r
AcceptedFor(r) ==
    {v \in 0 .. MAX_UINT32 :
        Accepted(v, limit) /\ MapToRange(v, range, args.lower) = r + args.lower}

\* C4: whenever a candidate is drawn, for every residue r of [0, range) the
\* number of word values that are accepted and mapped to r is the same (and
\* not zero).
C4_Unbiased ==
    pc = "read" =>
        LET n0 == Cardinality(AcceptedFor(0))
        IN  /\ n0 > 0
            /\ \A r \in 1 .. (range - 1) : Cardinality(AcceptedFor(r)) = n0

\* a draw for a range that does not divide the word size, after a rejected
\* candidate
C4_Witness ==
    /\ pc = "read"
    /\ range = 7
    /\ \E i \in DOMAIN examined : ~examined[i].accepted

\* the error kinds of the validation
RangeErrors == {"count must be > 0", "Cannot generate unique numbers"}

BoundsErrors == {"upper must be >= lower"}

\* getUniqueNumbersFromRange has thrown (to its caller or to getNumberFromRange)
UniqueThrown == pc \in {"inner_thrown", "thrown"}

C7_FullRange ==
    (UniqueReturned /\ args.count = args.upper - args.lower + 1) =>
        /\ Len(numbers) = args.upper - args.lower + 1
        /\ \A i \in DOMAIN numbers : numbers[i] = args.lower + i - 1
        /\ cursor = 0
        /\ examined = << >>

\* a call for a whole range of several values has returned
C7_Witness ==
    /\ pc = "returned"
    /\ entry = "unique"
    /\ args.count = 3
    /\ args.upper - args.lower + 1 = 3

\* both calls of a pair have settled
PairSettled == prev.made /\ Finished

\* C2: two runs of getUniqueNumbersFromRange with the same arguments and the
\* same HMAC function end the same way: the same array in the same order, the
\* same number of stream bytes consumed, the same HMAC requests, the same error.
C2_Determinism ==
    (PairSettled /\ entry = "unique" /\ prev.entry = "unique" /\ args = prev.args) =>
        /\ (pc = "thrown") = prev.failed
        /\ error = prev.error
        /\ numbers = prev.numbers
        /\ cursor = prev.cursor
        /\ requests = prev.requests

\* the second of two equal calls has returned two numbers after three candidates
C2_Witness ==
    /\ PairSettled
    /\ entry = "unique" /\ prev.entry = "unique"
    /\ args = prev.args
    /\ pc = "returned"
    /\ ~shouldUseInversion
    /\ Len(numbers) = 2
    /\ Len(examined) = 3

\* the current call is an inverted call for count, the previous one the call
\* for totalRange - count
InvertedAfterDirect ==
    /\ prev.made /\ pc = "returned" /\ ~prev.failed
    /\ entry = "unique" /\ prev.entry = "unique"
    /\ 2 * args.count > totalRange /\ args.count < totalRange
    /\ prev.args.count = totalRange - args.count

\* the same two calls, made in the other order
DirectAfterInverted ==
    /\ prev.made /\ pc = "returned" /\ ~prev.failed
    /\ entry = "unique" /\ prev.entry = "unique"
    /\ 2 * prev.args.count > totalRange /\ prev.args.count < totalRange
    /\ args.count = totalRange - prev.args.count

\* C6: for totalRange / 2 < count < totalRange the result for count is, as a
\* set, [lower, upper] minus the result for totalRange - count, which is
\* computed on the direct path; both calls consume the same number of bytes.
C6_InversionEquivalence ==
    /\ InvertedAfterDirect =>
         /\ shouldUseInversion /\ ~prev.inversion
         /\ Elems(numbers) = (args.lower .. args.upper) \ Elems(prev.numbers)
         /\ cursor = prev.cursor
    /\ DirectAfterInverted =>
         /\ ~shouldUseInversion /\ prev.inversion
         /\ Elems(prev.numbers) = (args.lower .. args.upper) \ Elems(numbers)
         /\ cursor = prev.cursor

\* an inverted call for 3 of 4 values after the direct call for the fourth,
\* each after a rejected and an accepted candidate
C6_Witness ==
    /\ InvertedAfterDirect
    /\ totalRange = 4
    /\ args.count = 3
    /\ Len(examined) = 2
    /\ Len(numbers) = 3

\* the current and the previous call are getNumberFromRange and
\* getUniqueNumbersFromRange with count = 1, on the same arguments
NumberAndUnique ==
    /\ PairSettled
    /\ entry # prev.entry
    /\ args = prev.args

\* C8: getNumberFromRange returns the single element of
\* getUniqueNumbersFromRange with count = 1 and the same arguments, fails
\* exactly when that call fails and with the same error, and never raises
\* 'Failed to generate any numbers'.
C8_SingleValue ==
    /\ NumberAndUnique =>
         /\ (pc = "thrown") = prev.failed
         /\ error = prev.error
         /\ pc = "returned" =>
              /\ Len(numbers) = 1 /\ numbers = prev.numbers
              /\ entry = "number" => value = prev.numbers[1]
              /\ entry = "unique" => prev.value = numbers[1]
    /\ (entry = "number" /\ pc = "returned") => numbers = <<value>>
    /\ error # "Failed to generate any numbers"

\* getNumberFromRange has returned the value of a one-value range, after
\* getUniqueNumbersFromRange with count = 1 on the same range
C8_Witness ==
    /\ NumberAndUnique
    /\ entry = "number"
    /\ pc = "returned"
    /\ totalRange = 1
    /\ shouldUseInversion
    /\ value = args.lower

\* the message of block k: clientSeed + ':' + nonce for block 0, and
\* clientSeed + ':' + nonce + ':' + k for k >= 1
ExpectedMessage(k) ==
    IF k = 0
    THEN args.clientSeed \o <<":">> \o NumberToString(args.nonce)
    ELSE args.clientSeed \o <<":">> \o NumberToString(args.nonce)
           \o <<":">> \o NumberToString(k)

\* the requests so far are those of blocks 0, 1, 2, ... in this order
RequestsInOrder ==
    (pc # "idle" /\ ValidInput(args)) =>
        /\ Len(requests) >= 1
        /\ \A k \in DOMAIN requests :
             requests[k] = <<args.serverSeed, ExpectedMessage(k - 1)>>
        /\ Sampling => Len(requests) = digestIndex + 1

\* a request for a block k >= 1 is issued with the working set below
\* targetCount and fewer than four unread bytes
RequestOnlyWhenNeeded ==
    (Len(requests) >= 1 /\ Len(requests') = Len(requests) + 1) =>
        /\ Len(results) < targetCount
        /\ Len(digest) - cursor < WordBytes
        /\ requests' = Append(requests, <<args.serverSeed, ExpectedMessage(Len(requests))>>)

\* C9: within one call the HMAC requests are, in this order, key serverSeed
\* with message clientSeed:nonce, then clientSeed:nonce:k for k = 1, 2, 3, ...
\* without gap or repeat; a block k >= 1 is requested only while the working
\* set is below targetCount and fewer than 4 unread bytes remain.
C9_RequestOrder == []RequestsInOrder /\ [][RequestOnlyWhenNeeded]_vars

\* three blocks have been requested for client seed "a" and nonce 12
C9_Witness ==
    /\ pc = "await_ext"
    /\ args.nonce = 12
    /\ requests = << <<args.serverSeed, <<"a", ":", "1", "2">> >>,
                     <<args.serverSeed, <<"a", ":", "1", "2", ":", "1">> >>,
                     <<args.serverSeed, <<"a", ":", "1", "2", ":", "2">> >> >>

\* the big-endian value of the four stream bytes from offset on
BigEndianAt(offset) ==
    digest[offset + 1] * ByteBase * ByteBase * ByteBase
      + digest[offset + 2] * ByteBase * ByteBase
      + digest[offset + 3] * ByteBase
      + digest[offset + 4]

\* the digest createHmac answered a request with
Answer(request) ==
    (CHOOSE t \in hmac : t.key = request[1] /\ t.message = request[2]).out

\* the buffer is the concatenation of the digests of the requests answered
StreamIsConcatenation ==
    /\ Len(digest) % DigestLen = 0
    /\ \A k \in 1 .. (Len(digest) \div DigestLen) :
         SubSeq(digest, (k - 1) * DigestLen + 1, k * DigestLen) = Answer(requests[k])

\* candidate i is the big-endian value of stream bytes 4i .. 4i + 3
CandidatesInOrder ==
    Sampling =>
        /\ StreamIsConcatenation
        /\ cursor = WordBytes * Len(examined)
        /\ \A i \in DOMAIN examined :
             /\ examined[i].at = WordBytes * (i - 1)
             /\ examined[i].at + WordBytes <= Len(digest)
             /\ examined[i].num = BigEndianAt(WordBytes * (i - 1))

\* an iteration advances the cursor by four bytes whatever the candidate, and
\* a rejected or duplicate candidate leaves the working set unchanged
IterationConsumesFour ==
    (Len(examined') = Len(examined) + 1) =>
        LET e == examined'[Len(examined')]
        IN  /\ cursor' = cursor + WordBytes
            /\ digest' = digest
            /\ (~(e.num < limit)
                  \/ ((e.num % range) + args.lower) \in Elems(results))
                 => results' = results
            /\ (e.num < limit
                  /\ ((e.num % range) + args.lower) \notin Elems(results))
                 => results' = Append(results, (e.num % range) + args.lower)

\* C10: the i-th candidate of a call is the big-endian value of stream bytes
\* 4i .. 4i + 3 of the concatenated digests; every iteration advances the
\* cursor by exactly 4 bytes, accepted or not, and a rejected or duplicate
\* draw leaves the working set unchanged.
C10_SequentialBytes == []CandidatesInOrder /\ [][IterationConsumesFour]_vars

\* three candidates have been read: one rejected, one accepted, one a duplicate
C10_Witness ==
    /\ pc = "loop"
    /\ Len(examined) = 3
    /\ ~examined[1].accepted
    /\ examined[2].accepted /\ examined[3].accepted
    /\ examined[2].num # examined[3].num
    /\ Len(results) = 1

(* --------------------------- the commitment ---------------------------- *)

\* the consecutive 2-character chunks of a string, the last one of a single
\* character when the length is odd
RECURSIVE Chunks(_)
Chunks(str) ==
    IF str = << >> THEN << >>
    ELSE IF Len(str) <= 2 THEN <<str>>
    ELSE <<SubSeq(str, 1, 2)>> \o Chunks(SubSeq(str, 3, Len(str)))

\* how many times a character occurs in a string
CountOf(c, str) == Cardinality({i \in DOMAIN str : str[i] = c})

\* getHashBySeed has computed its salt
SaltComputed == pc \in {"await_hash", "returned", "thrown"} /\ entry = "hash"

\* C11: for every seed string the salt of getHashBySeed is the concatenation,
\* in reverse order, of the seed's consecutive 2-character chunks, so it has
\* the length and the multiset of characters of the seed; the salt of the
\* empty seed is empty.
C11_SaltReversedChunks ==
    SaltComputed =>
        /\ salt = Join(Reverse(Chunks(seed)))
        /\ Len(salt) = Len(seed)
        /\ \A c \in SeedChars : CountOf(c, salt) = CountOf(c, seed)
        /\ (seed = << >>) => (salt = << >>)

\* the same statement for the seeds that hold no line terminator
C11_SaltOfOneLineSeeds ==
    (SaltComputed /\ \A i \in DOMAIN seed : seed[i] \notin LineTerminators) =>
        /\ salt = Join(Reverse(Chunks(seed)))
        /\ Len(salt) = Len(seed)
        /\ \A c \in SeedChars : CountOf(c, salt) = CountOf(c, seed)

\* a seed of three characters, the second one a line feed, has been salted
C11_Witness ==
    /\ SaltComputed
    /\ seed = <<"a", "\n", "b">>
    /\ salt = <<"b", "a">>

\* getHashBySeed, called by itself, has returned
HashReturned == pc = "returned" /\ entry = "hash"

\* two lowercase hexadecimal digits for each byte, high digit first
HexOf(bytes) ==
    [i \in 1 .. (2 * Len(bytes)) |->
       LET b == bytes[(i + 1) \div 2]
       IN  HexDigits[(IF i % 2 = 1 THEN b \div 16 ELSE b % 16) + 1]]

\* C12: in getHashBySeed of provably-fair.js the branch taken when CryptoJS is
\* defined and the branch that awaits createHmac (whichever primitive
\* createHmac obtains) return the same value: the HMAC with key seed + salt of
\* the empty message, in lowercase hexadecimal.
C12_BranchesAgree ==
    (HashReturned /\ installed = "original") =>
        /\ via \in {"direct", "subtle", "cryptojs", "loaded"}
        /\ requests = << <<seed \o salt, << >> >> >>
        /\ hash = HexOf(Answer(<<seed \o salt, << >> >>))
        /\ Len(hash) = 2 * DigestLen

\* the branch of a defined CryptoJS has returned the commitment of a seed
\* whose salt differs from it
C12_Witness ==
    /\ HashReturned
    /\ via = "direct"
    /\ seed = <<"a", "b", "a">>
    /\ salt = <<"a", "a", "b">>
    /\ hash = <<"0", "1", "0", "0", "0", "1", "0", "1">>

\* C13: the commitment depends only on the seed: whatever the page did in
\* between (adapter calls, crypto-js being loaded, updateFunctions installing
\* the embedded code), getHashBySeed returns the same string for the same
\* seed.
C13_CommitmentOfSeedOnly ==
    \A c1, c2 \in commitments : (c1[1] = c2[1]) => (c1[2] = c2[2])

\* the same statement as long as updateFunctions has not run
C13_BeforeUpdate ==
    (installed = "original") => C13_CommitmentOfSeedOnly

\* getHashBySeed has returned two strings for one seed, the second one after
\* updateFunctions
C13_Witness ==
    /\ installed = "embedded"
    /\ HashReturned
    /\ \E c \in commitments : c[1] = seed /\ c[2] # hash

(* ----------------------------- the adapters ---------------------------- *)

Games == {"dice", "wheel", "mines", "cases"}

\* the hash is asked for with the numbers in hand, and not before
HashAfterNumbers ==
    /\ (entry \in Games /\ pc \in {"await_engine", "numbers_ready"}) =>
          /\ hash = << >>
          /\ requests = << <<args.serverSeed, BaseMsg(args.clientSeed, args.nonce)>> >>
    /\ (entry \in Games /\ pc \in {"await_hash", "returned"}) =>
          /\ Len(numbers) = args.count
          /\ Len(numbers) > 0
          /\ Len(requests) = 2

\* a returning adapter returns the commitment of the seed that keyed its
\* stream
HashOfServerSeed ==
    (entry \in Games /\ pc = "returned") =>
        /\ requests[1][1] = args.serverSeed
        /\ seed = args.serverSeed
        /\ hash # << >>
        /\ hash = HexOf(Answer(requests[2]))
        /\ <<args.serverSeed, hash>> \in commitments

\* an adapter whose number generation fails fails with the error of the
\* engine and returns nothing
FailureSurfaces ==
    (entry \in Games /\ pc = "thrown") =>
        /\ hash = << >>
        /\ (numbers = << >>) =>
              error = (IF ValidationError(args.count, args.lower, args.upper) # ""
                       THEN ValidationError(args.count, args.lower, args.upper)
                       ELSE "crypto-js failed to load")

\* C14: every adapter (dice, wheel, mines, cases) that returns a result
\* returns with it hash = getHashBySeed(serverSeed) for the serverSeed that
\* keyed its number stream; the hash is computed only after the numbers, and
\* when number generation fails the adapter fails with the same error and
\* returns no hash.
C14_AdapterHash == HashAfterNumbers /\ HashOfServerSeed /\ FailureSurfaces

\* calculateMinesResult has returned two mined cells and the commitment
C14_Witness ==
    /\ entry = "mines" /\ pc = "returned"
    /\ numbers = <<1, 2>>
    /\ hash = <<"0", "1", "0", "0", "0", "1", "0", "1">>

\* C15: the dice adapter installed in window.ProvablyFair makes a single
\* draw from [0, 10000] and returns it divided by 100, so winNumber * 100 is
\* an integer of [0, 10000], initially and after updateFunctions has
\* installed the embedded code.
C15_DiceDraw ==
    (entry = "dice" /\ pc = "returned") =>
        /\ args.count = 1
        /\ args.lower = 0 /\ args.upper = DiceUpper
        /\ winNumber = value
        /\ winNumber \in 0 .. DiceUpper

\* the same statement for the calls made before updateFunctions
C15_OriginalDice ==
    (installed = "original") => C15_DiceDraw

\* the dice installed by updateFunctions has returned 50
C15_Witness ==
    /\ entry = "dice" /\ pc = "returned"
    /\ installed = "embedded"
    /\ args.lower = 1 /\ args.upper = EmbeddedDiceUpper
    /\ value = 50
    /\ winNumber = 5000

(* -------------------------- no HMAC primitive -------------------------- *)

\* the last createHmac found no primitive: crypto.subtle absent or throwing,
\* CryptoJS undefined, and its script failing to load
NoPrimitive == via = "failed"

\* every block of the buffer is the HMAC, keyed by the server seed, of the
\* message of its index
StreamIsHmac ==
    /\ StreamIsConcatenation
    /\ \A k \in 1 .. (Len(digest) \div DigestLen) :
         requests[k] = <<args.serverSeed, ExpectedMessage(k - 1)>>

\* C16: when no HMAC-SHA256 primitive can be obtained createHmac fails, and
\* the getUniqueNumbersFromRange or getNumberFromRange call awaiting it fails
\* without returning a number; the stream bytes of a call are never anything
\* but the HMAC of the specified key and message.
C16_NoDegradedStream ==
    /\ NoPrimitive =>
          /\ pc \in {"inner_thrown", "thrown"}
          /\ error = "crypto-js failed to load"
          /\ numbers = << >> /\ value = 0
          /\ subtle # "works" /\ ~CryptoJS
    /\ (pc \in {"loop", "read", "await_ext", "inner_returned", "returned"})
          => (StreamIsHmac /\ via \in Resolving)
    /\ (pc \in {"inner_returned", "returned"} /\ numbers # << >>)
          => Len(digest) >= DigestLen

\* getNumberFromRange has failed in a browser whose crypto.subtle throws and
\* which cannot load crypto-js
C16_Witness ==
    /\ pc = "thrown" /\ entry = "number"
    /\ NoPrimitive
    /\ subtle = "throws"
    /\ error = "crypto-js failed to load"
    /\ requests = << <<args.serverSeed, ExpectedMessage(0)>> >>

(* ---------------------------- two calls at once ------------------------ *)

\* the message of block k for a client seed and a nonce
MessageOf(clientSeed, nonce, k) ==
    IF k = 0
    THEN clientSeed \o <<":">> \o NumberToString(nonce)
    ELSE clientSeed \o <<":">> \o NumberToString(nonce)
           \o <<":">> \o NumberToString(k)

\* candidate i (from 0) of the stream of a server seed, a client seed and a
\* nonce, read from the digests createHmac answered
CandidateOf(serverSeed, clientSeed, nonce, i) ==
    LET perBlock == DigestLen \div WordBytes
        block == Answer(<<serverSeed, MessageOf(clientSeed, nonce, i \div perBlock)>>)
        at == (i % perBlock) * WordBytes
    IN  block[at + 1] * Pow(ByteBase, 3) + block[at + 2] * Pow(ByteBase, 2)
          + block[at + 3] * ByteBase + block[at + 4]

\* the working set a call run alone ends with: candidates are taken in order
\* from candidate i on until target distinct values are accepted
RECURSIVE SampleAlone(_, _, _, _, _, _, _, _)
SampleAlone(set, i, target, tr, lower, serverSeed, clientSeed, nonce) ==
    IF Len(set) >= target THEN set
    ELSE LET n == CandidateOf(serverSeed, clientSeed, nonce, i)
             v == (n % tr) + lower
             fresh == n < (MAX_UINT32 \div tr) * tr /\ v \notin Elems(set)
         IN  SampleAlone(IF fresh THEN Append(set, v) ELSE set, i + 1, target,
                         tr, lower, serverSeed, clientSeed, nonce)

\* the members of a set of integers in ascending order
Ascending(S) ==
    CHOOSE a \in [1 .. Cardinality(S) -> S] :
      \A i, j \in 1 .. Cardinality(S) : i < j => a[i] < a[j]

\* the array a call returns when it runs alone
AloneResult(count, lower, upper, serverSeed, clientSeed, nonce) ==
    LET tr == upper - lower + 1
        inv == 2 * count > tr
        set == SampleAlone(<< >>, 0, IF inv THEN tr - count ELSE count, tr,
                           lower, serverSeed, clientSeed, nonce)
    IN  IF inv THEN Ascending((lower .. upper) \ Elems(set)) ELSE set

\* a call that has returned, running or set aside, has returned what it
\* returns alone
ResultsAsAlone ==
    /\ (pc = "returned" /\ entry = "unique") =>
          numbers = AloneResult(args.count, args.lower, args.upper,
                                args.serverSeed, args.clientSeed, args.nonce)
    /\ (parked # NoCall /\ parked.pc = "returned") =>
          parked.numbers = AloneResult(parked.args.count, parked.args.lower,
                                       parked.args.upper, parked.args.serverSeed,
                                       parked.args.clientSeed, parked.args.nonce)

\* a step of the running call leaves the suspended call as it is; when the
\* calls change places each keeps its cursor, buffer, block index and
\* working set
StateKeptApart ==
    (parked' # parked) =>
        /\ parked'.cursor = cursor /\ parked'.digest = digest
        /\ parked'.digestIndex = digestIndex /\ parked'.results = results
        /\ (parked # NoCall) =>
              /\ cursor' = parked.cursor /\ digest' = parked.digest
              /\ digestIndex' = parked.digestIndex /\ results' = parked.results

\* C17: two getUniqueNumbersFromRange calls that run at once, interleaved in
\* any way at their createHmac awaits, each return what they return when run
\* alone; the cursor, buffer, block index and working set of one are never
\* read or written by the other.
C17_CallIndependence == []ResultsAsAlone /\ [][StateKeptApart]_vars

\* two calls of different nonces have both returned, each after reading two
\* candidates, with different results
C17_Witness ==
    /\ pc = "returned"
    /\ parked # NoCall /\ parked.pc = "returned"
    /\ parked.args.nonce # args.nonce
    /\ Len(examined) = 2 /\ Len(parked.examined) = 2
    /\ numbers # parked.numbers

(* ------------------------------ the nonce ------------------------------ *)

\* the message the engine asks the HMAC of for block k of a call, from the
\* baseMsg of the call (lines 124, 134)
MessageOfBlock(base, k) == IF k = 0 THEN base ELSE BlockMsg(base, k)

\* two calls, one running and one set aside, with the same seeds and
\* different nonces
SameSeedsOtherNonce ==
    /\ parked # NoCall /\ pc # "idle"
    /\ parked.args.serverSeed = args.serverSeed
    /\ parked.args.clientSeed = args.clientSeed
    /\ parked.args.nonce # args.nonce

\* C18: with the same serverSeed and clientSeed, two calls of different
\* non-negative nonces never ask for the HMAC of the same message: the message
\* of block i under one nonce differs from the message of block j under the
\* other, for all i and j.
C18_NonceSeparates ==
    SameSeedsOtherNonce =>
        /\ \A i, j \in 0 .. MaxBlocks :
             MessageOfBlock(baseMsg, i) # MessageOfBlock(parked.baseMsg, j)
        /\ \A i \in DOMAIN requests, j \in DOMAIN parked.requests :
             requests[i] # parked.requests[j]

\* the call of nonce 1 has asked for its block 2 and the call of nonce 12 for
\* its block 0
C18_Witness ==
    /\ parked # NoCall
    /\ args.nonce = 1 /\ parked.args.nonce = 12
    /\ args.clientSeed = parked.args.clientSeed
    /\ Len(requests) = 3
    /\ requests[3][2] = <<"a", ":", "1", ":", "2">>
    /\ parked.requests[1][2] = <<"a", ":", "1", "2">>

(* ----------------------------- the inversion -------------------------- *)

\* the plan of a call: the complement is drawn exactly when count is more
\* than half the range, and the working set never holds more than targetCount
\* values, itself at most half the range
InversionPlan ==
    Sampling =>
        /\ shouldUseInversion <=> (2 * args.count > totalRange)
        /\ shouldUseInversion => (targetCount = totalRange - args.count)
        /\ ~shouldUseInversion => (targetCount = args.count)
        /\ 2 * targetCount <= totalRange
        /\ Len(results) <= targetCount
        /\ Distinct(results)
        /\ UniqueReturned => (Len(results) = targetCount)

\* with the working set at targetCount the call returns: no candidate is
\* read and no block is asked for any more; and a candidate is read only
\* with the working set below targetCount
StopsAtTarget ==
    /\ (pc = "loop" /\ Len(results) = targetCount) =>
          /\ pc' \in {"returned", "inner_returned"}
          /\ examined' = examined /\ requests' = requests
          /\ results' = results
    /\ (Len(examined') = Len(examined) + 1) => (Len(results) < targetCount)

\* C19: the inversion path is taken exactly when count > totalRange / 2
\* (count = totalRange / 2 draws directly); the sampling loop collects
\* totalRange - count distinct values on the inversion path and count
\* otherwise, never more than floor(totalRange / 2), and stops at the first
\* moment the working set reaches that size.
C19_InversionThreshold == []InversionPlan /\ [][StopsAtTarget]_vars

\* a call for exactly half of a range of four values has drawn both values
\* directly
C19_Witness ==
    /\ pc = "returned" /\ entry = "unique"
    /\ args.count = 2 /\ totalRange = 4
    /\ ~shouldUseInversion
    /\ Len(results) = 2 /\ numbers = results

(* ----------------------------- termination ---------------------------- *)

\* a call has passed validation and has not settled
Running == pc \in {"await_base", "loop", "await_ext", "read", "inner_returned"}

\* candidates the call can read in the blocks the model follows
Capacity == MaxBlocks * (DigestLen \div WordBytes)

\* the stream has wasted (rejected or repeated) more candidates than leave
\* room for targetCount fresh ones in the blocks the model follows
Starved == Len(examined) - Len(results) > Capacity - targetCount

\* the blocks needed to cover the bytes consumed, one at least
BlocksConsumed ==
    IF cursor = 0 THEN 1 ELSE (cursor + DigestLen - 1) \div DigestLen

\* at return the buffer holds the blocks consumed and no more, each asked for
\* once
MaterializedIsMinimal ==
    UniqueReturned =>
        /\ Len(digest) = DigestLen * BlocksConsumed
        /\ Len(requests) = BlocksConsumed
        /\ cursor = WordBytes * Len(examined)

\* C20: every getUniqueNumbersFromRange call with valid inputs returns in the
\* end, provided the stream keeps producing accepted values not yet in the
\* working set; the bytes materialized at return are the smallest whole
\* number of digest blocks covering the bytes consumed, one block at least.
C20_Termination ==
    /\ Running ~> (pc = "returned" \/ Starved)
    /\ []MaterializedIsMinimal

\* a call has returned after consuming two blocks, the first of them wasted
C20_Witness ==
    /\ pc = "returned" /\ entry = "unique"
    /\ Len(examined) = 2
    /\ ~examined[1].accepted
    /\ Len(digest) = 2 * DigestLen
    /\ ~Starved

(* ------------------------- order of the result ------------------------- *)

\* the values of the accepted candidates among the first n read, in the order
\* they were read
RECURSIVE AcceptedValues(_)
AcceptedValues(n) ==
    IF n = 0 THEN << >>
    ELSE IF examined[n].num < (MAX_UINT32 \div totalRange) * totalRange
         THEN Append(AcceptedValues(n - 1),
                     (examined[n].num % totalRange) + args.lower)
         ELSE AcceptedValues(n - 1)

\* the first n elements of a sequence with every repeat of an earlier element
\* left out
RECURSIVE FirstAppearances(_, _)
FirstAppearances(seq, n) ==
    IF n = 0 THEN << >>
    ELSE IF \E j \in 1 .. (n - 1) : seq[j] = seq[n]
         THEN FirstAppearances(seq, n - 1)
         ELSE Append(FirstAppearances(seq, n - 1), seq[n])

\* the distinct accepted values of the call, in the order of their first
\* appearance among the candidates read
DrawnInOrder ==
    LET values == AcceptedValues(Len(examined))
    IN  FirstAppearances(values, Len(values))

\* the candidates read are those of the stream of the call, in stream order
ReadFromStream ==
    \A i \in DOMAIN examined :
      examined[i].num = CandidateOf(args.serverSeed, args.clientSeed,
                                    args.nonce, i - 1)

\* C21: the array returned on the direct path lists the distinct accepted
\* values in the order of their first appearance in the stream; on the
\* inversion path it lists the integers of [lower, upper] that were not
\* excluded, in ascending order; the candidates it is built from are those of
\* the stream of the call, so the order depends on the inputs and the stream
\* only.
C21_ResultOrder ==
    UniqueReturned =>
        /\ ReadFromStream
        /\ ~shouldUseInversion => numbers = DrawnInOrder
        /\ shouldUseInversion =>
             /\ Elems(numbers) = (args.lower .. args.upper) \ Elems(DrawnInOrder)
             /\ \A i, j \in DOMAIN numbers : i < j => numbers[i] < numbers[j]

\* a direct call has returned two values in descending order, the second
\* drawn after a repeat of the first
C21_Witness ==
    /\ pc = "returned" /\ entry = "unique"
    /\ ~shouldUseInversion
    /\ Len(numbers) = 2
    /\ numbers[1] > numbers[2]
    /\ Len(examined) = 3
    /\ examined[1].accepted /\ examined[2].accepted /\ examined[3].accepted

(* --------------------------- the loop invariant ------------------------ *)

\* a candidate is read at a multiple of four, from bytes the buffer holds
ReadInBounds ==
    pc = "read" =>
        /\ cursor % WordBytes = 0
        /\ cursor + WordBytes <= Len(digest)

\* at the loop test, at a read and at return the buffer holds blocks
\* 0 .. digestIndex, whole
WholeBlocks ==
    (pc \in {"loop", "read"} \/ UniqueReturned) =>
        Len(digest) = DigestLen * (digestIndex + 1)

\* while block digestIndex is awaited (lines 132-135) the buffer holds blocks
\* 0 .. digestIndex - 1: the index is incremented before the await
AwaitedBlock ==
    pc = "await_ext" => Len(digest) = DigestLen * digestIndex

\* the buffer only grows, by one block, when an awaited block arrives, and the
\* read of the iteration follows at once
OneBlockPerIteration ==
    (Sampling /\ digest' # digest) =>
        /\ pc = "await_ext" /\ pc' = "read"
        /\ Len(digest') = Len(digest) + DigestLen
        /\ SubSeq(digest', 1, Len(digest)) = digest
        /\ digestIndex' = digestIndex /\ cursor' = cursor

\* C22, as claimed: at every read cursor is a multiple of 4 with
\* cursor + 4 <= digest.length, and digest.length equals
\* 32 * (digestIndex + 1) at every moment of the sampling loop.
C22_AlwaysWholeBlocks ==
    /\ ReadInBounds
    /\ Sampling => Len(digest) = DigestLen * (digestIndex + 1)

\* C22, amended: at every read cursor is a multiple of 4 with
\* cursor + 4 <= digest.length; digest.length equals 32 * (digestIndex + 1) at
\* every loop test, read and return, and 32 * digestIndex while the block
\* digestIndex is awaited; the buffer grows by one block at a time, and at
\* most once per iteration.
C22_LoopInvariant ==
    /\ [](ReadInBounds /\ WholeBlocks /\ AwaitedBlock)
    /\ [][OneBlockPerIteration]_vars

\* the last word of a buffer of three blocks is about to be read
C22_Witness ==
    /\ pc = "read"
    /\ digestIndex = 2
    /\ cursor = 2 * DigestLen
    /\ Len(digest) = 3 * DigestLen

(* ----------------------- validation comes first ------------------------ *)

\* the call being made has an input the validation rejects
RejectedCall == pc = "idle" /\ pc' # "idle" /\ ~ValidInput(args')

\* a rejected call settles in the step that makes it: it asks for no HMAC,
\* loads nothing and leaves the globals, the digests and the page as they were
RejectedAtOnce ==
    RejectedCall =>
        /\ pc' \in {"thrown", "inner_thrown"}
        /\ error' \in (RangeErrors \cup BoundsErrors)
        /\ requests' = << >> /\ pending' = << >>
        /\ hmac' = hmac
        /\ subtle' = subtle /\ CryptoJS' = CryptoJS /\ via' = via
        /\ UNCHANGED <<loopState, app, parked>>

\* a rejected call has asked for nothing, and crypto-js has not been loaded
\* for it; the count error comes before the bounds error
RejectedUntouched ==
    (pc # "idle" /\ ~ValidInput(args)) =>
        /\ UniqueThrown
        /\ requests = << >> /\ pending = << >>
        /\ hmac = {} /\ via = ""
        /\ digest = << >> /\ examined = << >> /\ numbers = << >>
        /\ (args.count <= 0 /\ args.upper < args.lower) =>
             error = "count must be > 0"

\* C23: when getUniqueNumbersFromRange rejects its input (count <= 0,
\* upper < lower, or count > totalRange) it has issued no HMAC request, loaded
\* nothing and changed nothing; when count <= 0 and upper < lower both hold,
\* the error reported is the one about count.
C23_ValidationFirst == []RejectedUntouched /\ [][RejectedAtOnce]_vars

\* in a browser without Web Crypto and without crypto-js, a call with a
\* non-positive count on an empty range has failed with the count error
C23_Witness ==
    /\ pc = "thrown" /\ entry = "unique"
    /\ args.count <= 0 /\ args.upper < args.lower
    /\ error = "count must be > 0"
    /\ subtle = "absent" /\ ~CryptoJS
    /\ requests = << >>

(* ------------------------------ prefixes ------------------------------- *)

\* the current call is a direct draw of fewer values than the previous call,
\* a direct draw with the same seeds, nonce and range; both have returned
SmallerAfterLarger ==
    /\ PairSettled /\ pc = "returned" /\ ~prev.failed
    /\ entry = "unique" /\ prev.entry = "unique"
    /\ args.serverSeed = prev.args.serverSeed
    /\ args.clientSeed = prev.args.clientSeed
    /\ args.nonce = prev.args.nonce
    /\ args.lower = prev.args.lower /\ args.upper = prev.args.upper
    /\ args.count < prev.args.count
    /\ 2 * prev.args.count <= totalRange

\* C24: for the same range, seeds and nonce and counts k1 < k2 <= totalRange / 2
\* the array returned for k1 is the first k1 elements of the array returned
\* for k2, and the call for k1 consumes no more stream bytes (and asks for no
\* more blocks) than the call for k2.
C24_DirectPrefix ==
    SmallerAfterLarger =>
        /\ ~shouldUseInversion /\ ~prev.inversion
        /\ Len(numbers) = args.count
        /\ Len(prev.numbers) = prev.args.count
        /\ numbers = SubSeq(prev.numbers, 1, args.count)
        /\ cursor <= prev.cursor
        /\ Len(requests) <= Len(prev.requests)
        /\ requests = SubSeq(prev.requests, 1, Len(requests))

\* a draw of two values after a draw of three from the same stream, whose
\* first element is not the least: the smaller draw stopped a block earlier
C24_Witness ==
    /\ SmallerAfterLarger
    /\ args.count = 2 /\ prev.args.count = 3
    /\ prev.numbers[1] > prev.numbers[2]
    /\ cursor < prev.cursor

(* ------------------------- the message of a block ---------------------- *)

\* two calls, one running and one set aside, of rounds that differ in client
\* seed or nonce, under the same server seed
DifferentRounds ==
    /\ parked # NoCall /\ pc # "idle"
    /\ parked.args.serverSeed = args.serverSeed
    /\ <<parked.args.clientSeed, parked.args.nonce>> # <<args.clientSeed, args.nonce>>

\* a string holds the separator
HasColon(str) == \E i \in DOMAIN str : str[i] = ":"

\* no message of one call is a message of the other, and no HMAC request of
\* one is a request of the other
MessagesApart ==
    /\ \A i, j \in 0 .. MaxBlocks :
         MessageOfBlock(baseMsg, i) # MessageOfBlock(parked.baseMsg, j)
    /\ \A i \in DOMAIN requests, j \in DOMAIN parked.requests :
         requests[i] # parked.requests[j]

\* C25: two rounds that differ in client seed or nonce, whatever the client
\* seeds (one holding ':' included), never ask for the HMAC of the same
\* message, for any block indexes, and so never share a digest block under
\* the same server seed.
C25_MessageInjective == DifferentRounds => MessagesApart

\* the same for client seeds without ':', which the code does keep apart
C25_SeedsWithoutColon ==
    (DifferentRounds /\ ~HasColon(args.clientSeed)
       /\ ~HasColon(parked.args.clientSeed)) => MessagesApart

\* the round of client seed "a" and nonce 1 has appended its block 1, asked
\* for with the message a:1:1, and the round of client seed "a:1" and nonce 1
\* holds the same bytes as its block 0, asked for with the same message
C25_Witness ==
    /\ parked # NoCall
    /\ args.clientSeed = <<"a", ":", "1">> /\ args.nonce = 1
    /\ parked.args.clientSeed = <<"a">> /\ parked.args.nonce = 1
    /\ Len(parked.requests) >= 2
    /\ parked.requests[2] = requests[1]
    /\ requests[1][2] = <<"a", ":", "1", ":", "1">>
    /\ Len(digest) >= DigestLen /\ Len(parked.digest) >= 2 * DigestLen
    /\ pc \in {"loop", "read", "returned"}
    /\ SubSeq(digest, 1, DigestLen)
         = SubSeq(parked.digest, DigestLen + 1, 2 * DigestLen)

====
